---- MODULE Spec2Model ----
(***************************************************************************)
(* Model of boxtown/counter, src/src/bit_vec.rs: BitVec, a growable vector *)
(* of 64-bit blocks addressed by bit index, and AppendOnlyBitVec, a cursor *)
(* over a BitVec.                                                          *)
(*                                                                         *)
(* A u64 is modelled as the set of its set bit positions, position 0 the   *)
(* least significant bit and position 63 the most significant one, so that *)
(* all 64 bits are kept and shifts drop the bits that leave the word.      *)
(***************************************************************************)
EXTENDS Integers, Sequences, FiniteSets, TLC

\* ------------------------------------------------------------------ u64

\* width of a storage block (u64)
WordBits == 64

BitPos == 0..(WordBits - 1)

\* the u64 0
Zero == {}

\* the u64 !0
AllOnes == BitPos

\* the u64 of a small natural number (below 2^16)
U64(n) == {b \in 0..15 : (n \div (2 ^ b)) % 2 = 1}

\* the u64 1
One == U64(1)

\* x << k on u64, 0 <= k < 64: bits shifted past position 63 are lost
Shl(x, k) == {b + k : b \in {c \in x : c + k < WordBits}}

\* x >> k on u64, 0 <= k < 64
Shr(x, k) == {b - k : b \in {c \in x : c >= k}}

BitAnd(x, y) == x \cap y

BitOr(x, y) == x \cup y

BitNot(x) == BitPos \ x

\* ------------------------------------------------- index arithmetic
\* A bit index is a usize. TLC's integers have 32 bits, so usize is modelled
\* with 30: the indexes used are either small or within one block of the
\* largest usize, and 2^30, like 2^64, is a multiple of 64, so that index + k
\* wraps around to the same small number in the model as in the program.
UsizeModulus == 2 ^ 30

\* usize::MAX
UsizeMax == UsizeModulus - 1

\* a + b on usize where overflow is not checked (release profile); where it
\* is checked (debug profile) a sum that overflows panics: see overflows
wrapping_add(a, b) == (a + b) % UsizeModulus

overflows(a, b) == a + b >= UsizeModulus


\* 0-based index of the block holding bit index
block_i(index) == index \div 64

\* offset_i counting from 64 where the code counts from 63
offset_i_from64(index) == 64 - (index % 64)

\* position within its block of bit index: bit 0 is the block's top bit
offset_i(index) == 63 - (index % 64)

block_aligned(index) == index % 64 = 0

\* number of blocks it takes to contain nbits
blocks(nbits) == IF nbits % 64 = 0 THEN nbits \div 64 ELSE (nbits \div 64) + 1

\* ------------------------------------------------------------ BitVec
\* The operators take and return the Vec<u64> self.data, a sequence of u64.

\* Vec::resize(new_len, 0)
resize(data, new_len) ==
    IF new_len <= Len(data)
    THEN SubSeq(data, 1, new_len)
    ELSE data \o [k \in 1..(new_len - Len(data)) |-> Zero]

out_of_bounds(data, index) == blocks(wrapping_add(index, 1)) > Len(data)

\* self.data.get_unchecked(block_i(index))
block(data, index) == data[block_i(index) + 1]

\* self.data.get_unchecked(block_i(index) + 1)
next_block(data, index) == data[block_i(index) + 2]

\* BitVec::new
new == << >>

\* clear emptying the storage (Vec::clear) where the code zeroes it in place
clear_truncate(data) == << >>

clear(data) == [k \in 1..Len(data) |-> Zero]

\* get_block shifting the next block by offset where the code shifts by offset + 1
get_block_shift(data, index) ==
    IF block_i(index) >= Len(data)
    THEN Zero
    ELSE LET offset == offset_i(index)
             result == BitOr(Zero, Shl(block(data, index), 63 - offset))
         IN IF offset = 63
            THEN block(data, index)
            ELSE IF block_i(index) + 1 >= Len(data)
                 THEN result
                 ELSE BitOr(result, Shr(next_block(data, index), offset))

\* set_bit clearing with mask where the code clears with !mask
set_bit_keepmask(data, index, value) ==
    LET grown == IF blocks(index + 1) > Len(data)
                 THEN resize(data, blocks(index + 1))
                 ELSE data
        offset == offset_i(index)
        mask == Shl(One, offset)
    IN [grown EXCEPT ![block_i(index) + 1] =
            IF value THEN BitOr(@, mask) ELSE BitAnd(@, mask)]

\* set_cur_block storing the shifted block without keeping the bits above it
set_cur_block_clobber(data, index, blk) ==
    IF block_aligned(index)
    THEN [data EXCEPT ![block_i(index) + 1] = blk]
    ELSE LET offset == offset_i(index)
             d == Shr(blk, 64 - (offset + 1))
         IN [data EXCEPT ![block_i(index) + 1] = d]

\* set_next_block OR-ing the shifted block in without clearing the bits it replaces
set_next_block_nomask(data, index, blk) ==
    LET offset == offset_i(index)
        d == Shl(blk, offset + 1)
    IN [data EXCEPT ![block_i(index) + 2] = BitOr(@, d)]

\* set_bit's growth keeping one spare block after the block of index
set_bit_grow_spare(data, index) ==
    IF out_of_bounds(data, index)
    THEN resize(data, blocks(index + 1) + 1)
    ELSE data

\* set_block's growth always making room for a next block
set_block_grow_next(data, index) ==
    IF blocks(index + 1) + 1 > Len(data)
    THEN resize(data, blocks(index + 1) + 1)
    ELSE data

\* set_next_block shifting the block by offset where the code shifts by offset + 1
set_next_block_shift(data, index, blk) ==
    LET offset == offset_i(index)
        mask == Shr(AllOnes, 64 - (offset + 1))
        d == Shl(blk, offset)
    IN [data EXCEPT ![block_i(index) + 2] = BitOr(BitAnd(@, mask), d)]

get_bit(data, index) ==
    IF out_of_bounds(data, index)
    THEN FALSE
    ELSE LET offset == offset_i(index)
             mask == Shl(One, offset)
         IN Shr(BitAnd(block(data, index), mask), offset) = One

\* set_bit's growth resizing whether or not index is out of bounds
set_bit_grow_always(data, index) == resize(data, blocks(index + 1))

\* set_bit's first statement: the storage grown to hold the block of index
set_bit_grow(data, index) ==
    IF out_of_bounds(data, index)
    THEN resize(data, blocks(wrapping_add(index, 1)))
    ELSE data

set_bit(data, index, value) ==
    LET grown == set_bit_grow(data, index)
        offset == offset_i(index)
        mask == Shl(One, offset)
    IN [grown EXCEPT ![block_i(index) + 1] =
            IF value THEN BitOr(@, mask) ELSE BitAnd(@, BitNot(mask))]

get_block(data, index) ==
    IF block_i(index) >= Len(data)
    THEN Zero
    ELSE LET offset == offset_i(index)
             result == BitOr(Zero, Shl(block(data, index), 63 - offset))
         IN IF offset = 63
            THEN block(data, index)
            ELSE IF block_i(index) + 1 >= Len(data)
                 THEN result
                 ELSE BitOr(result, Shr(next_block(data, index), offset + 1))

\* the new value of the block indicated by index
set_cur_block(data, index, blk) ==
    IF block_aligned(index)
    THEN [data EXCEPT ![block_i(index) + 1] = blk]
    ELSE LET offset == offset_i(index)
             mask == Shl(AllOnes, offset + 1)
             d == Shr(blk, 64 - (offset + 1))
         IN [data EXCEPT ![block_i(index) + 1] = BitOr(BitAnd(@, mask), d)]

set_next_block(data, index, blk) ==
    LET offset == offset_i(index)
        mask == Shr(AllOnes, 64 - (offset + 1))
        d == Shl(blk, offset + 1)
    IN [data EXCEPT ![block_i(index) + 2] = BitOr(BitAnd(@, mask), d)]

\* set_block's first statement: the storage grown to hold bits index..index + 63
set_block_grow(data, index) ==
    IF out_of_bounds(data, wrapping_add(index, 63))
    THEN resize(data, blocks(wrapping_add(index, 64)))
    ELSE data

set_block(data, index, blk) ==
    LET grown == set_block_grow(data, index)
        cur == set_cur_block(grown, index, blk)
    IN IF block_aligned(index) THEN cur ELSE set_next_block(cur, index, blk)

\* ------------------------------------------------ unchecked accesses
\* Each get_unchecked / get_unchecked_mut a method makes, as the record
\* [word |-> the index passed, size |-> self.data.len() at that moment].

InBounds(accesses) == \A a \in accesses : a.word < a.size

get_bit_accesses(data, index) ==
    IF out_of_bounds(data, index)
    THEN {}
    ELSE {[word |-> block_i(index), size |-> Len(data)]}

set_bit_accesses(data, index) ==
    {[word |-> block_i(index), size |-> Len(set_bit_grow(data, index))]}

get_block_accesses(data, index) ==
    IF block_i(index) >= Len(data)
    THEN {}
    ELSE {[word |-> block_i(index), size |-> Len(data)]}
         \cup IF offset_i(index) = 63 \/ block_i(index) + 1 >= Len(data)
              THEN {}
              ELSE {[word |-> block_i(index) + 1, size |-> Len(data)]}

set_block_accesses(data, index) ==
    LET size == Len(set_block_grow(data, index))
    IN {[word |-> block_i(index), size |-> size]}
       \cup IF block_aligned(index)
            THEN {}
            ELSE {[word |-> block_i(index) + 1, size |-> size]}

\* ------------------------------------------ shifts and subtractions
\* The shift amounts and the unsigned differences a method computes, as
\* records [kind |-> "shift" or "sub", val |-> the amount or the difference].
\* A shift of a u64 by 64 or more, or a difference below zero, panics where
\* overflow is checked.

shift(amount) == [kind |-> "shift", val |-> amount]

sub(a, b) == [kind |-> "sub", val |-> a - b]

get_block_arith(data, index) ==
    IF block_i(index) >= Len(data)
    THEN {}
    ELSE LET offset == offset_i(index)
         IN {sub(63, index % 64)}
            \cup IF offset = 63
                 THEN {}
                 ELSE {sub(63, offset), shift(63 - offset)}
                      \cup IF block_i(index) + 1 >= Len(data)
                           THEN {}
                           ELSE {shift(offset + 1)}

set_cur_block_arith(index) ==
    IF block_aligned(index)
    THEN {}
    ELSE LET offset == offset_i(index)
         IN {sub(63, index % 64), shift(offset + 1),
             sub(64, offset + 1), shift(64 - (offset + 1))}

set_next_block_arith(index) ==
    LET offset == offset_i(index)
    IN {sub(63, index % 64), sub(64, offset + 1), shift(64 - (offset + 1)),
        shift(offset + 1)}

set_block_arith(index) ==
    set_cur_block_arith(index)
    \cup IF block_aligned(index) THEN {} ELSE set_next_block_arith(index)

set_bit_arith(index) == {sub(63, index % 64), shift(offset_i(index))}

\* -------------------------------------------------- AppendOnlyBitVec
\* self is the record [vec |-> the BitVec's data, len |-> the cursor].

AppendOnlyBitVec_new == [vec |-> new, len |-> 0]

\* append whose one-bit arm leaves the cursor where it was
append_nocursor(self, bits, data) ==
    CASE bits = 0 -> self
      [] bits = 1 ->
            [vec |-> set_bit(self.vec, self.len, BitAnd(data, One) = One),
             len |-> self.len]
      [] bits = 64 ->
            [vec |-> set_block(self.vec, self.len, data),
             len |-> self.len + 64]
      [] OTHER ->
            LET mask == Shr(AllOnes, 64 - bits)
                d == Shl(BitAnd(data, mask), 63 - bits)
            IN [vec |-> set_block(self.vec, self.len, d),
                len |-> self.len + bits]

\* append whose last arm shifts the masked data by 64 - bits
append_aligned(self, bits, data) ==
    CASE bits = 0 -> self
      [] bits = 1 ->
            [vec |-> set_bit(self.vec, self.len, BitAnd(data, One) = One),
             len |-> self.len + 1]
      [] bits = 64 ->
            [vec |-> set_block(self.vec, self.len, data),
             len |-> self.len + 64]
      [] OTHER ->
            LET mask == Shr(AllOnes, 64 - bits)
                d == Shl(BitAnd(data, mask), 64 - bits)
            IN [vec |-> set_block(self.vec, self.len, d),
                len |-> self.len + bits]

\* append whose last arm shifts data without masking it first
append_nomask(self, bits, data) ==
    CASE bits = 0 -> self
      [] bits = 1 ->
            [vec |-> set_bit(self.vec, self.len, BitAnd(data, One) = One),
             len |-> self.len + 1]
      [] bits = 64 ->
            [vec |-> set_block(self.vec, self.len, data),
             len |-> self.len + 64]
      [] OTHER ->
            LET d == Shl(data, 63 - bits)
            IN [vec |-> set_block(self.vec, self.len, d),
                len |-> self.len + bits]

\* append without its arm for zero bits
append_nozero(self, bits, data) ==
    CASE bits = 1 ->
            [vec |-> set_bit(self.vec, self.len, BitAnd(data, One) = One),
             len |-> self.len + 1]
      [] bits = 64 ->
            [vec |-> set_block(self.vec, self.len, data),
             len |-> self.len + 64]
      [] OTHER ->
            LET mask == Shr(AllOnes, 64 - bits)
                d == Shl(BitAnd(data, mask), 63 - bits)
            IN [vec |-> set_block(self.vec, self.len, d),
                len |-> self.len + bits]

append(self, bits, data) ==
    CASE bits = 0 -> self
      [] bits = 1 ->
            [vec |-> set_bit(self.vec, self.len, BitAnd(data, One) = One),
             len |-> self.len + 1]
      [] bits = 64 ->
            [vec |-> set_block(self.vec, self.len, data),
             len |-> self.len + 64]
      [] OTHER ->
            LET mask == Shr(AllOnes, 64 - bits)
                d == Shl(BitAnd(data, mask), 63 - bits)
            IN [vec |-> set_block(self.vec, self.len, d),
                len |-> self.len + bits]

\* the shifts and subtractions of append(bits, data) and of the write it makes
append_arith(self, bits) ==
    CASE bits = 0 -> {}
      [] bits = 1 -> set_bit_arith(self.len)
      [] bits = 64 -> set_block_arith(self.len)
      [] OTHER ->
            {sub(64, bits), shift(64 - bits), sub(63, bits), shift(63 - bits)}
            \cup set_block_arith(self.len)

\* ------------------------------------------------------------ Buffer
\* A Buffer is the record [start, end, data], data the counts of its slots
\* 0..BufLen - 1.

\* the length of Buffer's data: [u64; 60]
BufLen == 60

Buffer_start_at(start) ==
    [start |-> start, end |-> start + 59, data |-> [i \in 0..(BufLen - 1) |-> 0]]

\* Buffer::new, sec being what time::get_time().sec returns to it
Buffer_new(sec) == Buffer_start_at(sec)

\* contains leaving out the last second of the window
contains_exclusive(buf, index) == index >= buf.start /\ index < buf.end

contains(buf, index) == index >= buf.start /\ index <= buf.end

\* Buffer::incr; its callers pass an index the buffer contains
Buffer_incr(buf, index) ==
    LET i == index - buf.start
    IN [buf EXCEPT !.data[i] = @ + 1]

reset_at(buf, index) ==
    [start |-> index, end |-> index + 59, data |-> [i \in 0..(BufLen - 1) |-> 0]]

\* ----------------------------------------------------------- Counter
\* self.data is a function from the keys present to their Buffers.

\* self.data.entry(key).or_insert(buf)
or_insert(map, key, buf) ==
    [k \in DOMAIN map \cup {key} |-> IF k \in DOMAIN map THEN map[k] ELSE buf]

\* Counter::incr: bi is the second read first, sec the second Buffer::new()
\* reads when the or_insert argument is evaluated
Counter_incr(map, key, bi, sec) ==
    LET entered == or_insert(map, key, Buffer_new(sec))
    IN IF contains(entered[key], bi)
       THEN [data |-> [entered EXCEPT ![key] = Buffer_incr(@, bi)], ret |-> "Ok"]
       ELSE [data |-> entered, ret |-> "MustFlushCounter"]

\* flush resetting the buffers before it looks at the writer's result
Counter_flush_reset_first(map, start, written) ==
    [data |-> [k \in DOMAIN map |-> reset_at(map[k], start)],
     ret |-> IF written THEN "Ok" ELSE "IO"]

\* Counter::flush: written tells whether self.writer.write returned Ok
Counter_flush(map, start, written) ==
    IF written
    THEN [data |-> [k \in DOMAIN map |-> reset_at(map[k], start)], ret |-> "Ok"]
    ELSE [data |-> map, ret |-> "IO"]

\* -------------------------------------------------- CounterFileWriter
\* A String is the sequence of its characters.

Digits == <<"0", "1", "2", "3", "4", "5", "6", "7", "8", "9">>

\* format!("{}", val) for an unsigned val: its decimal digits
RECURSIVE format_u64(_)
format_u64(val) ==
    IF val < 10
    THEN <<Digits[val + 1]>>
    ELSE format_u64(val \div 10) \o <<Digits[(val % 10) + 1]>>

\* format!("{}", n) for an i64: a minus sign before the digits of a negative n
format_i64(n) == IF n < 0 THEN <<"-">> \o format_u64(0 - n) ELSE format_u64(n)

\* String::pop: removes the last character if there is one
pop(str) == IF Len(str) = 0 THEN str ELSE SubSeq(str, 1, Len(str) - 1)

\* the for loop of write_buffer, from slot i on
RECURSIVE write_buffer_loop(_, _, _, _)
write_buffer_loop(offset, buf, dest, i) ==
    IF i = BufLen
    THEN dest
    ELSE LET val == buf.data[i]
         IN write_buffer_loop(offset, buf,
                IF val = 0
                THEN dest
                ELSE dest \o format_i64(buf.start + i - offset) \o <<":">>
                          \o format_u64(val) \o <<",">>,
                i + 1)

\* write_buffer without the dest.pop() that follows the loop
write_buffer_nopop(offset, buf, dest) == write_buffer_loop(offset, buf, dest, 0)

write_buffer(offset, buf, dest) == pop(write_buffer_loop(offset, buf, dest, 0))

\* the characters of a key, which push_str(key) appends
chars(key) ==
    CASE key = "test1" -> <<"t", "e", "s", "t", "1">>
      [] key = "test2" -> <<"t", "e", "s", "t", "2">>

\* the for loop of write_data_to_string from the i-th pair on; order is the
\* sequence in which iterating over the map yields its keys
RECURSIVE write_data_loop(_, _, _, _, _)
write_data_loop(offset, map, order, s_buf, i) ==
    IF i > Len(order)
    THEN s_buf
    ELSE LET key == order[i]
             opened == s_buf \o <<"{">> \o chars(key) \o <<";">>
             closed == write_buffer(offset, map[key], opened) \o <<"}">>
         IN \* closed ends in "}"; the test has it evaluated before the next pair
            IF Len(closed) = 0
            THEN closed
            ELSE write_data_loop(offset, map, order, closed, i + 1)

write_data_to_string(offset, map, order) == write_data_loop(offset, map, order, << >>, 1)

\* ----------------------------------------------------------- TSBlock
\* The time-series encoder. self is the record [ts0, data, last]: data an
\* AppendOnlyBitVec, last the last-sample record, whose field present tells
\* whether a sample has been published.

\* the u64 holding the i64 n in two's complement, for |n| < 2^15
I64Bits(n) ==
    {b \in 0..15 : ((n % 65536) \div (2 ^ b)) % 2 = 1}
    \cup (IF n < 0 THEN 16..63 ELSE {})

BitXor(x, y) == (x \ y) \cup (y \ x)

\* u64::leading_zeros
clz(x) == IF x = Zero THEN 64 ELSE 63 - (CHOOSE b \in x : \A c \in x : c <= b)

\* u64::trailing_zeros
ctz(x) == IF x = Zero THEN 64 ELSE CHOOSE b \in x : \A c \in x : b <= c

NoLast == [present |-> FALSE, ts |-> 0, delta |-> 0, val |-> Zero,
           leading |-> 0, trailing |-> 0]

\* TSBlock::at(ts0): the first 64 bits of data are the base timestamp
TSBlock_at(ts0) ==
    [ts0 |-> ts0, data |-> append(AppendOnlyBitVec_new, 64, I64Bits(ts0)), last |-> NoLast]

\* the timestamp field of a steady-state sample: a prefix, then the low m
\* bits of dd
compressed_time_block(bv, dd) ==
    IF dd = 0 THEN append(bv, 1, U64(0))
    ELSE IF 0 - 63 <= dd /\ dd <= 64 THEN append(append(bv, 2, U64(2)), 7, I64Bits(dd))
    ELSE IF 0 - 255 <= dd /\ dd <= 256 THEN append(append(bv, 3, U64(6)), 9, I64Bits(dd))
    ELSE IF 0 - 2047 <= dd /\ dd <= 2048 THEN append(append(bv, 4, U64(14)), 12, I64Bits(dd))
    ELSE append(append(bv, 4, U64(15)), 32, I64Bits(dd))

\* the value field of a steady-state sample: v XOR-ed against the last value
compressed_value_block(bv, last, v) ==
    LET x == BitXor(v, last.val)
        lz == clz(x)
        tz == ctz(x)
    IN IF x = Zero THEN append(bv, 1, U64(0))
       ELSE IF last.leading <= lz /\ last.trailing <= tz
            THEN append(append(bv, 2, U64(2)),
                        64 - last.leading - last.trailing, Shr(x, last.trailing))
            ELSE append(append(append(append(bv, 1, U64(1)), 5, U64(lz)),
                               6, U64(64 - lz - tz)),
                        64 - lz - tz, Shr(x, tz))

\* the last-sample record keeping the delta-of-delta where it is to keep the delta
update_last_dd(self, v, ts) ==
    IF ~self.last.present
    THEN [present |-> TRUE, ts |-> ts, delta |-> ts - self.ts0, val |-> v,
          leading |-> clz(v), trailing |-> ctz(v)]
    ELSE LET last == self.last
             x == BitXor(v, last.val)
             refit == x # Zero /\ ~(last.leading <= clz(x) /\ last.trailing <= ctz(x))
         IN [present |-> TRUE,
             ts |-> ts,
             delta |-> (ts - last.ts) - last.delta,
             val |-> v,
             leading |-> IF refit THEN clz(x) ELSE last.leading,
             trailing |-> IF refit THEN ctz(x) ELSE last.trailing]

\* the last-sample record after publish_at(value, ts), v the bits of value
update_last(self, v, ts) ==
    IF ~self.last.present
    THEN [present |-> TRUE, ts |-> ts, delta |-> ts - self.ts0, val |-> v,
          leading |-> clz(v), trailing |-> ctz(v)]
    ELSE LET last == self.last
             x == BitXor(v, last.val)
             refit == x # Zero /\ ~(last.leading <= clz(x) /\ last.trailing <= ctz(x))
         IN [present |-> TRUE,
             ts |-> ts,
             delta |-> ts - last.ts,
             val |-> v,
             leading |-> IF refit THEN clz(x) ELSE last.leading,
             trailing |-> IF refit THEN ctz(x) ELSE last.trailing]

\* publish_at(value, ts): the timestamp field, then the value field, then
\* the last-sample record
publish_at(self, v, ts) ==
    LET emitted ==
            IF ~self.last.present
            THEN append(append(self.data, 14, I64Bits(ts - self.ts0)), 64, v)
            ELSE compressed_value_block(
                     compressed_time_block(self.data,
                         (ts - self.last.ts) - self.last.delta),
                     self.last, v)
    IN [ts0 |-> self.ts0, data |-> emitted, last |-> update_last(self, v, ts)]

\* ------------------------------------------------------------- state

VARIABLES
    data,    \* BitVec: self.data of a BitVec driven through its own methods
    call,    \* the last BitVec method called on it, with its arguments
    pre,     \* self.data as it was when that call started
    ncalls,  \* number of BitVec calls made so far
    vec,     \* AppendOnlyBitVec: self.vec.data
    len,     \* AppendOnlyBitVec: self.len, the cursor
    calls,   \* the append calls made so far, in order: <<bits, data>>
    snaps,   \* snaps[k] is [vec, len] before the k-th append; the last one is current
    cdata,   \* Counter: self.data, key -> Buffer
    now,     \* the second time::get_time().sec returns
    cres,    \* the last Counter call: its arguments, what it returned, self.data before it
    cflush,  \* the last flush that returned Ok: whether an incr had been refused
             \* before it, its start, the keys it reset, the incr calls refused since
    ccalls,  \* number of Counter calls made so far
    wbuf,    \* a Buffer driven through Buffer::incr, as test_write_buffer does
    wincrs,  \* number of Buffer::incr calls made on it
    wout,    \* the last call writing it out: write_buffer with its offset and dest
             \* before and after, or write_data_to_string with its offset, the
             \* map, the order the map was iterated in, and the String returned
    tsb,     \* TSBlock: [ts0, data, last]
    tpub     \* the timestamps published to it so far, in order

vars == <<data, call, pre, ncalls, vec, len, calls, snaps, cdata, now, cres, cflush, ccalls,
         wbuf, wincrs, wout, tsb, tpub>>

bitvec_vars == <<data, call, pre, ncalls>>

append_vars == <<vec, len, calls, snaps>>

counter_vars == <<cdata, now, cres, cflush, ccalls>>

writer_vars == <<wbuf, wincrs, wout>>

tsblock_vars == <<tsb, tpub>>

\* ------------------------------------------------------------ bounds

\* BitVec calls per behaviour
MaxCalls == 2

\* bit indexes reach into blocks 0..MaxWord
MaxWord == 1

\* append calls per behaviour
MaxAppends == 3

\* append calls per behaviour when the calls are those of test_append
MaxTestAppends == 6

\* offsets within a block at which bits and blocks are written
Offsets == {0, 1, 4, 37, 63}

Indexes == {64 * w + o : w \in 0..MaxWord, o \in Offsets}

\* indexes test_get_set, test_set_block and test_get_block write at
TestIndexes == {0, 4, 67}

\* every bit index a read may ask for: the blocks written and two blocks beyond
ReadIndexes == 0..(64 * (MaxWord + 4) - 1)

\* indexes read by the calls of SpecStorage: those written, one beyond them,
\* and the largest two there are
StorageReads == TestIndexes \cup {64 * (MaxWord + 2) + 5, UsizeMax - 1, UsizeMax}

\* a u64 with set and clear bits at both ends: 0x8000_0100_0000_2A05
Pat == {0, 2, 9, 11, 13, 40, 63}

Blocks == {AllOnes, Pat}

\* widths passed to append: each arm of its match, and the ends of the last arm
Widths == {0, 1, 2, 3, 9, 14, 32, 63, 64}

\* Counter calls per behaviour
MaxCounterCalls == 3

Keys == {"test1", "test2"}

\* seconds the clock shows: the first two and the last of a Buffer's window
\* starting at 1500, and the two after it
Times == {1500 + k : k \in {0, 1, BufLen - 1, BufLen, BufLen + 1}}

\* Buffer::incr calls per behaviour on the Buffer that is written out
MaxBufIncrs == 10

\* seconds counted in that Buffer: those of test_write_buffer and both ends
\* of the window
BufTimes == {1500, 1505, 1516, 1532, 1559}

\* offsets passed to write_buffer: none, that of test_write_buffer, and one
\* later than the window
WriteOffsets == {0, 200, 1600}

\* what dest holds when write_buffer is called: nothing, or "{k;"
Dests == {<< >>, <<"{", "k", ";">>}

\* publish_at calls per behaviour
MaxPublishes == 3

\* seconds between one published timestamp and the next: each branch of the
\* timestamp field is taken by some pair of them
Steps == {5, 10, 100, 1000, 5000}

\* the bits of the f64 values published: 2.0 and 4.0
Values == {{62}, {62, 52}}

\* the calls test_append makes
TestCalls == {<<1, U64(0)>>, <<0, U64(1)>>, <<1, U64(1)>>, <<64, AllOnes>>, <<3, U64(3)>>}

\* -------------------------------------------------------------- Init

\* fault is "" for a call that returned, "panic" for one that panicked and
\* "ub" for one that made an unchecked access outside the storage
NoCall == [op |-> "new", index |-> 0, value |-> FALSE, blk |-> Zero, fault |-> ""]

\* DataMap::default()
NoKeys == [k \in {} |-> Buffer_start_at(0)]

NoCounterCall ==
    [op |-> "new", key |-> "", t |-> 0, written |-> FALSE, ret |-> "", pre |-> NoKeys]

\* refused tells whether some incr has returned MustFlushCounter so far
NoFlush == [refused |-> FALSE, after |-> FALSE, s |-> 0, keys |-> {}, again |-> 0]

\* Buffer::incr calls made on a Buffer that is written out as part of a map
MaxMapIncrs == 3

\* the orders in which iterating over a map may yield its keys
KeyOrders ==
    {<< >>, <<"test1">>, <<"test2">>, <<"test1", "test2">>, <<"test2", "test1">>}

\* the maps written out: each key present holds the driven Buffer, or that
\* Buffer as a flush leaves it
DataMaps ==
    UNION {[K -> {wbuf, reset_at(wbuf, wbuf.start)}] : K \in SUBSET Keys}

NoWrite ==
    [op |-> "new", offset |-> 0, dest |-> << >>, map |-> NoKeys, order |-> << >>,
     out |-> << >>]

Init ==
    /\ data = new
    /\ call = NoCall
    /\ pre = new
    /\ ncalls = 0
    /\ vec = AppendOnlyBitVec_new.vec
    /\ len = AppendOnlyBitVec_new.len
    /\ calls = << >>
    /\ snaps = << AppendOnlyBitVec_new >>
    /\ cdata = NoKeys
    /\ now = 1500
    /\ cres = NoCounterCall
    /\ cflush = NoFlush
    /\ ccalls = 0
    /\ wbuf = Buffer_start_at(1500)
    /\ wincrs = 0
    /\ wout = NoWrite
    /\ tsb = TSBlock_at(0)
    /\ tpub = << >>

\* ----------------------------------------------------- BitVec actions

SetBit(i, v) ==
    /\ ncalls < MaxCalls
    /\ data' = set_bit(data, i, v)
    /\ call' = [op |-> "set_bit", index |-> i, value |-> v, blk |-> Zero, fault |-> ""]
    /\ pre' = data
    /\ ncalls' = ncalls + 1
    /\ UNCHANGED <<append_vars, counter_vars, writer_vars, tsblock_vars>>

SetBlock(i, b) ==
    /\ ncalls < MaxCalls
    /\ data' = set_block(data, i, b)
    /\ call' = [op |-> "set_block", index |-> i, value |-> FALSE, blk |-> b, fault |-> ""]
    /\ pre' = data
    /\ ncalls' = ncalls + 1
    /\ UNCHANGED <<append_vars, counter_vars, writer_vars, tsblock_vars>>

Clear ==
    /\ ncalls < MaxCalls
    /\ data' = clear(data)
    /\ call' = [op |-> "clear", index |-> 0, value |-> FALSE, blk |-> Zero, fault |-> ""]
    /\ pre' = data
    /\ ncalls' = ncalls + 1
    /\ UNCHANGED <<append_vars, counter_vars, writer_vars, tsblock_vars>>

\* get_bit and get_block take &self: the call leaves self.data as it is, and
\* what it returned is kept in call.value and call.blk.
\* get_bit(i) computes i + 1: where overflow is checked the call panics when
\* that overflows; where it is not, the sum wraps around and the call goes on
\* to its unchecked read, which, made outside the storage, is undefined
\* behaviour: the call returns either value, or does not return.
GetBit(i) ==
    /\ ncalls < MaxCalls
    /\ data' = data
    /\ \/ /\ InBounds(get_bit_accesses(data, i))
          /\ call' = [op |-> "get_bit", index |-> i, value |-> get_bit(data, i),
                      blk |-> Zero, fault |-> ""]
       \/ /\ overflows(i, 1)
          /\ call' = [op |-> "get_bit", index |-> i, value |-> FALSE,
                      blk |-> Zero, fault |-> "panic"]
       \/ /\ ~InBounds(get_bit_accesses(data, i))
          /\ \E v \in BOOLEAN :
                call' = [op |-> "get_bit", index |-> i, value |-> v,
                         blk |-> Zero, fault |-> "ub"]
    /\ pre' = data
    /\ ncalls' = ncalls + 1
    /\ UNCHANGED <<append_vars, counter_vars, writer_vars, tsblock_vars>>

GetBlock(i) ==
    /\ ncalls < MaxCalls
    /\ data' = data
    /\ call' = [op |-> "get_block", index |-> i, value |-> FALSE, blk |-> get_block(data, i),
                fault |-> ""]
    /\ pre' = data
    /\ ncalls' = ncalls + 1
    /\ UNCHANGED <<append_vars, counter_vars, writer_vars, tsblock_vars>>

NextBitVec ==
    \/ \E i \in Indexes, v \in BOOLEAN : SetBit(i, v)
    \/ \E i \in Indexes, b \in Blocks : SetBlock(i, b)
    \/ Clear

SpecBitVec == Init /\ [][NextBitVec]_vars

\* The same calls, at the indexes the tests write at.
NextBitVecTest ==
    \/ \E i \in TestIndexes, v \in BOOLEAN : SetBit(i, v)
    \/ \E i \in TestIndexes, b \in Blocks : SetBlock(i, b)
    \/ Clear

SpecBitVecTest == Init /\ [][NextBitVecTest]_vars

\* ------------------------------------------- AppendOnlyBitVec actions

AppendCall(bits, d) ==
    LET r == append([vec |-> vec, len |-> len], bits, d)
    IN /\ vec' = r.vec
       /\ len' = r.len
       /\ calls' = calls \o << <<bits, d>> >>
       /\ snaps' = snaps \o << r >>
       /\ UNCHANGED <<bitvec_vars, counter_vars, writer_vars, tsblock_vars>>

NextAppend ==
    \E bits \in Widths, d \in Blocks :
        /\ Len(calls) < MaxAppends
        /\ AppendCall(bits, d)

SpecAppend == Init /\ [][NextAppend]_vars

NextTestAppend ==
    \E c \in TestCalls :
        /\ Len(calls) < MaxTestAppends
        /\ AppendCall(c[1], c[2])

SpecTestAppend == Init /\ [][NextTestAppend]_vars

\* ---------------------------------------------------- Counter actions

\* the clock moves on
Tick ==
    /\ \E t \in Times : t > now /\ now' = t
    /\ UNCHANGED <<cdata, cres, cflush, ccalls, bitvec_vars, append_vars, writer_vars, tsblock_vars>>

\* incr(key): the clock is read at entry, and again by Buffer::new(), by when
\* it may show the next second
Incr(key, sec) ==
    /\ ccalls < MaxCounterCalls
    /\ sec \in {now, now + 1} \cap Times
    /\ LET r == Counter_incr(cdata, key, now, sec)
       IN /\ cdata' = r.data
          /\ cres' = [op |-> "incr", key |-> key, t |-> now, written |-> FALSE,
                      ret |-> r.ret, pre |-> cdata]
          /\ cflush' = IF r.ret = "MustFlushCounter"
                       THEN [cflush EXCEPT !.refused = TRUE,
                                           !.again = IF @ < 2 THEN @ + 1 ELSE @]
                       ELSE cflush
    /\ now' = sec
    /\ ccalls' = ccalls + 1
    /\ UNCHANGED <<bitvec_vars, append_vars, writer_vars, tsblock_vars>>

\* flush(start); written is the outcome of the writer's write
Flush(start, written) ==
    /\ ccalls < MaxCounterCalls
    /\ LET r == Counter_flush(cdata, start, written)
       IN /\ cdata' = r.data
          /\ cres' = [op |-> "flush", key |-> "", t |-> start, written |-> written,
                      ret |-> r.ret, pre |-> cdata]
          /\ cflush' = IF r.ret = "Ok"
                       THEN [cflush EXCEPT !.after = cflush.refused, !.s = start,
                                           !.keys = DOMAIN cdata, !.again = 0]
                       ELSE cflush
    /\ ccalls' = ccalls + 1
    /\ UNCHANGED <<now, bitvec_vars, append_vars, writer_vars, tsblock_vars>>

NextCounter ==
    \/ Tick
    \/ \E key \in Keys, sec \in Times : Incr(key, sec)
    \/ \E start \in Times, written \in BOOLEAN : Flush(start, written)

SpecCounter == Init /\ [][NextCounter]_vars

\* ------------------------------------------ CounterFileWriter actions

\* buf.incr(index) on the Buffer, for an index it contains
BufferIncr(index) ==
    /\ wincrs < MaxBufIncrs
    /\ contains(wbuf, index)
    /\ wbuf' = Buffer_incr(wbuf, index)
    /\ wincrs' = wincrs + 1
    /\ wout' = NoWrite
    /\ UNCHANGED <<bitvec_vars, append_vars, counter_vars, tsblock_vars>>

\* write_buffer(offset, &buf, &mut dest) with dest holding the given string
WriteBuffer(offset, dest) ==
    /\ wout' = [op |-> "write_buffer", offset |-> offset, dest |-> dest,
                map |-> NoKeys, order |-> << >>,
                out |-> write_buffer(offset, wbuf, dest)]
    /\ UNCHANGED <<wbuf, wincrs, bitvec_vars, append_vars, counter_vars, tsblock_vars>>

\* write_data_to_string(offset, &map), iterating over map yielding its keys
\* in the given order
WriteData(offset, map, order) ==
    /\ wincrs <= MaxMapIncrs
    /\ Len(order) = Cardinality(DOMAIN map)
    /\ {order[i] : i \in 1..Len(order)} = DOMAIN map
    /\ wout' = [op |-> "write_data_to_string", offset |-> offset, dest |-> << >>,
                map |-> map, order |-> order,
                out |-> write_data_to_string(offset, map, order)]
    /\ UNCHANGED <<wbuf, wincrs, bitvec_vars, append_vars, counter_vars, tsblock_vars>>

NextWriter ==
    \/ \E index \in BufTimes : BufferIncr(index)
    \/ \E offset \in WriteOffsets, dest \in Dests : WriteBuffer(offset, dest)
    \/ \E offset \in WriteOffsets, map \in DataMaps, order \in KeyOrders :
          WriteData(offset, map, order)

SpecWriter == Init /\ [][NextWriter]_vars

\* ---------------------------------------------------- TSBlock actions

PublishAt(v, ts) ==
    /\ Len(tpub) < MaxPublishes
    /\ tsb' = publish_at(tsb, v, ts)
    /\ tpub' = tpub \o <<ts>>
    /\ UNCHANGED <<bitvec_vars, append_vars, counter_vars, writer_vars>>

NextTSBlock ==
    \E v \in Values, step \in Steps :
        PublishAt(v, (IF tpub = << >> THEN tsb.ts0 ELSE tpub[Len(tpub)]) + step)

SpecTSBlock == Init /\ [][NextTSBlock]_vars

\* Every method of the two types, writes and reads and appends, MaxCalls calls
\* in all per behaviour.
CallsLeft == ncalls + Len(calls) < MaxCalls

NextStorage ==
    \/ \E i \in TestIndexes, v \in BOOLEAN : CallsLeft /\ SetBit(i, v)
    \/ \E i \in TestIndexes, b \in Blocks : CallsLeft /\ SetBlock(i, b)
    \/ CallsLeft /\ Clear
    \/ \E i \in StorageReads : CallsLeft /\ GetBit(i)
    \/ \E i \in StorageReads : CallsLeft /\ GetBlock(i)
    \/ \E c \in TestCalls : CallsLeft /\ AppendCall(c[1], c[2])

SpecStorage == Init /\ [][NextStorage]_vars

Next == NextBitVecTest \/ NextBitVec \/ NextAppend \/ NextTestAppend \/ NextStorage
        \/ NextCounter \/ NextWriter \/ NextTSBlock

Spec == Init /\ [][Next]_vars

\* ============================================================ claims

\* the 64 bits get_bit reads at i, i+1, .., i+63, most significant first, as a u64
BitsAt(d, i) == {63 - k : k \in {m \in 0..63 : get_bit(d, i + m)}}

\* C4 -- Block round-trip: after set_block(i, block), get_block(i) = block and
\* get_bit(j) is what it was for every j outside [i, i+64).
C4_BlockRoundTrip ==
    call.op = "set_block" =>
        /\ get_block(data, call.index) = call.blk
        /\ \A j \in ReadIndexes :
              (j < call.index \/ j >= call.index + 64) =>
                  get_bit(data, j) = get_bit(pre, j)

\* an unaligned set_block over a vector that already holds set bits
\* outside the window and inside it
C4_Witness ==
    /\ call.op = "set_block"
    /\ ~block_aligned(call.index)
    /\ \E j \in ReadIndexes :
          (j < call.index \/ j >= call.index + 64) /\ get_bit(pre, j)
    /\ get_block(pre, call.index) \notin {Zero, call.blk}

\* C5 -- Bit round-trip: after set_bit(i, b), get_bit(i) = b and get_bit(j) is
\* what it was for every j # i.
C5_BitRoundTrip ==
    call.op = "set_bit" =>
        /\ get_bit(data, call.index) = call.value
        /\ \A j \in ReadIndexes :
              j # call.index => get_bit(data, j) = get_bit(pre, j)

\* set_bit(i, false) on a bit that was set, with other bits of its block set
C5_Witness ==
    /\ call.op = "set_bit"
    /\ ~call.value
    /\ get_bit(pre, call.index)
    /\ ~get_bit(data, call.index)
    /\ \E j \in ReadIndexes :
          j # call.index /\ block_i(j) = block_i(call.index) /\ get_bit(data, j)

\* C6 -- Block/bit read equivalence: in every state reached by set_bit, set_block
\* and clear calls, get_block(i) is the u64 whose bits, most significant first,
\* are get_bit(i), get_bit(i+1), .., get_bit(i+63), for every i, also when the
\* window is partly or wholly beyond storage.
C6_BlockBitEquiv ==
    \A i \in ReadIndexes : get_block(data, i) = BitsAt(data, i)

\* a vector with an unaligned window that takes set bits from two blocks, and
\* an unaligned window with set bits whose second block is beyond storage
C6_Witness ==
    /\ \E i \in ReadIndexes :
          /\ ~block_aligned(i)
          /\ block_i(i) + 1 < Len(data)
          /\ Shl(block(data, i), 63 - offset_i(i)) # Zero
          /\ Shr(next_block(data, i), offset_i(i) + 1) # Zero
          /\ get_block(data, i) # AllOnes
    /\ \E i \in ReadIndexes :
          /\ ~block_aligned(i)
          /\ block_i(i) + 1 = Len(data)
          /\ get_block(data, i) # Zero

\* ------------------------------------------------- AppendOnlyBitVec

\* the last append call, and the vector and cursor it started from
LastCall == calls[Len(calls)]

Before == snaps[Len(calls)]

\* stream positions [L, L+n) of v hold the low n bits of d, most significant first
Field(v, L, n, d) ==
    \A k \in 0..(n - 1) : get_bit(v, L + k) = ((n - 1 - k) \in d)

RECURSIVE SumWidths(_)
SumWidths(cs) == IF cs = << >> THEN 0 ELSE cs[1][1] + SumWidths(Tail(cs))

\* C1 -- Append correctness: after append(n, d) from cursor L, positions
\* [L, L+n) hold the low n bits of d most significant first.
C1_AppendCorrect ==
    calls # << >> => Field(vec, Before.len, LastCall[1], LastCall[2])

\* C2 -- Append ordering: after append(n1, d1); append(n2, d2) from cursor L the
\* stream holds the low n1 bits of d1 at [L, L+n1) immediately followed by the
\* low n2 bits of d2 at [L+n1, L+n1+n2).
C2_AppendOrdering ==
    Len(calls) >= 2 =>
        LET k == Len(calls) - 1
            L == snaps[k].len
            n1 == calls[k][1]
        IN /\ Field(vec, L, n1, calls[k][2])
           /\ Field(vec, L + n1, calls[k + 1][1], calls[k + 1][2])

\* C3 -- Zero past the cursor: after any sequence of appends every bit at a
\* position >= len reads 0, the tail of the last block included.
C3_ZeroPastCursor ==
    \A i \in len..(64 * (Len(vec) + 1)) : ~get_bit(vec, i)

\* C7 -- Append-only frame: an append changes no bit below the cursor it started
\* from; if the first append is append(64, ts0), get_block(0) = ts0 after every
\* later sequence of appends.
C7_AppendOnlyFrame ==
    /\ calls # << >> =>
          \A j \in 0..(Before.len - 1) : get_bit(vec, j) = get_bit(Before.vec, j)
    /\ (calls # << >> /\ calls[1][1] = 64) => get_block(vec, 0) = calls[1][2]

\* a 64-bit header followed by two appends of other widths, the first of which
\* leaves the cursor unaligned
C7_Witness ==
    /\ Len(calls) = 3
    /\ calls[1] = <<64, Pat>>
    /\ calls[2][1] \notin {0, 64}
    /\ calls[3][1] # 0
    /\ calls[3][2] = AllOnes
    /\ get_block(vec, 0) = Pat

\* C8 -- Cursor arithmetic: len starts at 0 and is the sum of the widths
\* appended; each append advances it by exactly its width, whatever the data.
C8_CursorSum ==
    /\ snaps[1].len = 0
    /\ len = SumWidths(calls)
    /\ calls # << >> => len = Before.len + LastCall[1]

\* three appends, one of width 0, one through set_bit and one through set_block
C8_Witness ==
    /\ Len(calls) = 3
    /\ {calls[k][1] : k \in 1..3} = {0, 1, 14}
    /\ len = 15

\* C9 -- First-sample wire layout: append(64, ts0); append(14, delta);
\* append(64, v) on a fresh vector leaves ts0 at [0, 64), the low 14 bits of
\* delta at [64, 78) and v at [78, 142).
C9_FirstSampleLayout ==
    (Len(calls) = 3 /\ calls[1][1] = 64 /\ calls[2][1] = 14 /\ calls[3][1] = 64) =>
        /\ get_block(vec, 0) = calls[1][2]
        /\ Field(vec, 64, 14, calls[2][2])
        /\ get_block(vec, 78) = calls[3][2]

\* the calls of test_append, in its order
TestAppendCalls ==
    << <<1, U64(0)>>, <<0, U64(1)>>, <<1, U64(1)>>, <<1, U64(0)>>,
       <<64, AllOnes>>, <<3, U64(3)>> >>

\* C10 -- Append scenario: after the calls of test_append, get_bit(0) = 0,
\* get_bit(1) = 1, get_block(2) = !0 >> 1, get_block(3) = !0, get_bit(68) = 0,
\* get_bit(69) = 1, get_bit(70) = 1, get_bit(71) = 0.
C10_TestAppend ==
    calls = TestAppendCalls =>
        /\ ~get_bit(vec, 0)
        /\ get_bit(vec, 1)
        /\ get_block(vec, 2) = Shr(AllOnes, 1)
        /\ get_block(vec, 3) = AllOnes
        /\ ~get_bit(vec, 68)
        /\ get_bit(vec, 69)
        /\ get_bit(vec, 70)
        /\ ~get_bit(vec, 71)

\* test_append has run to its end: the cursor is at 70
C10_Witness ==
    /\ calls = TestAppendCalls
    /\ len = 70

\* ------------------------------------------------------------------
\* Claims about BitVec's reads, clear and growth.

Max(a, b) == IF a >= b THEN a ELSE b

\* ceil(n / 64)
CeilDiv64(n) == (n + 63) \div 64

\* C11: get_bit(i) is false and get_block(i) is 0 whenever word i / 64 is at
\* or beyond the storage length: in every state, for every index up to two
\* blocks beyond the storage, and for every get_bit or get_block call made,
\* which returns false / 0 when its index is out of range and leaves the
\* storage length and contents as they were.
C11_OutOfRangeReads ==
    /\ \A i \in ReadIndexes :
          i \div 64 >= Len(data) => ~get_bit(data, i) /\ get_block(data, i) = Zero
    /\ call.op \in {"get_bit", "get_block"} =>
          /\ data = pre
          /\ call.index \div 64 >= Len(pre) =>
                call.fault = "" /\ ~call.value /\ call.blk = Zero

\* C12: after clear(), get_bit(i) is false and get_block(i) is 0 for every
\* index i, the storage length is what it was before the call, and a second
\* clear() changes nothing.
C12_Clear ==
    call.op = "clear" =>
        /\ \A i \in ReadIndexes : ~get_bit(data, i) /\ get_block(data, i) = Zero
        /\ Len(data) = Len(pre)
        /\ clear(data) = data

\* clear() was called on a vector of two or more words, one of them nonzero
C12_Witness ==
    /\ call.op = "clear"
    /\ Len(pre) >= 2
    /\ \E k \in 1..Len(pre) : pre[k] # Zero

\* C13: after set_block(i, block) on a vector of L words the length is
\* max(L, ceil((i + 64) / 64)), which is i / 64 + 1 words for an aligned i and
\* at least i / 64 + 2 words otherwise; every word added other than the ones
\* the call writes is zero.
C13_SetBlockGrowth ==
    call.op = "set_block" =>
        LET L == Len(pre)
            i == call.index
            w == i \div 64
            written == IF i % 64 = 0 THEN {w} ELSE {w, w + 1}
        IN /\ Len(data) = Max(L, CeilDiv64(i + 64))
           /\ i % 64 = 0 => CeilDiv64(i + 64) = w + 1
           /\ i % 64 # 0 => Len(data) >= w + 2
           /\ \A k \in (L + 1)..Len(data) : (k - 1) \notin written => data[k] = Zero

\* a set_block grew the vector by three words, one of them not written
C13_Witness ==
    /\ call.op = "set_block"
    /\ Len(data) >= Len(pre) + 3

\* C14: after set_bit(i, v) on a vector of L words the length is exactly
\* max(L, ceil((i + 1) / 64)), and every word added is zero except for bit i.
C14_SetBitGrowth ==
    call.op = "set_bit" =>
        LET L == Len(pre)
            i == call.index
        IN /\ Len(data) = Max(L, CeilDiv64(i + 1))
           /\ \A k \in (L + 1)..Len(data) :
                 data[k] = IF k - 1 = i \div 64 /\ call.value
                           THEN {63 - (i % 64)}
                           ELSE Zero

\* a set_bit(i, true) grew the vector by two words or more
C14_Witness ==
    /\ call.op = "set_bit"
    /\ call.value
    /\ Len(data) >= Len(pre) + 2

\* C15: from one state to the next, whichever of set_bit, set_block, clear,
\* get_bit, get_block and append is called, the number of words in a BitVec's
\* storage does not decrease.
C15_NeverShrinks ==
    [][Len(data') >= Len(data) /\ Len(vec') >= Len(vec)]_vars

\* a write below the end of a vector of three words left it three words long
C15_Witness ==
    /\ call.op \in {"set_bit", "set_block", "clear"}
    /\ Len(pre) = 3
    /\ call.index < 64
    /\ Len(data) = 3

\* x with its high n bits cleared
HighCleared(x, n) == {b \in x : b < 64 - n}

\* word w (0-based) of the storage d, zero when the storage ends before it
WordOrZero(d, w) == IF w < Len(d) THEN d[w + 1] ELSE Zero

\* C19 as stated: after an unaligned set_block(i, block), word i / 64 + 1 is
\* its old value with the high off + 1 bits cleared, OR block << (off + 1),
\* where off = 63 - i mod 64.
C19_NextWordAsStated ==
    call.op = "set_block" /\ call.index % 64 # 0 =>
        LET off == 63 - (call.index % 64)
            w == call.index \div 64
        IN data[w + 2] = BitOr(HighCleared(WordOrZero(pre, w + 1), off + 1),
                               Shl(call.blk, off + 1))

\* C19: after an unaligned set_block(i, block), word i / 64 + 1 is its old
\* value with the high 63 - off bits cleared (its low off + 1 bits kept), OR
\* block << (off + 1), where off = 63 - i mod 64.
C19_NextWord ==
    call.op = "set_block" /\ call.index % 64 # 0 =>
        LET off == 63 - (call.index % 64)
            w == call.index \div 64
        IN data[w + 2] = BitOr(HighCleared(WordOrZero(pre, w + 1), 63 - off),
                               Shl(call.blk, off + 1))

\* an unaligned set_block whose second word held set bits both among the
\* bits the call replaces and among the bits it keeps
C19_Witness ==
    /\ call.op = "set_block"
    /\ call.index % 64 # 0
    /\ LET off == 63 - (call.index % 64)
           old == WordOrZero(pre, call.index \div 64 + 1)
       IN /\ HighCleared(old, 63 - off) # Zero
          /\ HighCleared(old, 63 - off) # old

\* C20: every unchecked access made by get_bit, set_bit, get_block or
\* set_block, on any reachable vector and at any index, uses a word index
\* below the storage length at the moment of the access: the accesses of the
\* call just made (a call that panicked before its access made none), and
\* those of any read or write within two blocks of the storage that could be
\* made next.
C20_UncheckedInBounds ==
    /\ call.op = "set_bit" => InBounds(set_bit_accesses(pre, call.index))
    /\ call.op = "set_block" => InBounds(set_block_accesses(pre, call.index))
    /\ call.op = "get_bit" /\ call.fault # "panic" =>
          InBounds(get_bit_accesses(pre, call.index))
    /\ call.op = "get_block" => InBounds(get_block_accesses(pre, call.index))
    /\ \A i \in ReadIndexes :
          /\ InBounds(get_bit_accesses(data, i))
          /\ InBounds(get_block_accesses(data, i))
    /\ \A i \in Indexes :
          /\ InBounds(set_bit_accesses(data, i))
          /\ InBounds(set_block_accesses(data, i))

\* ------------------------------------------------------------------
\* Claims about Counter.

\* the Buffer incr(key) found for its key: the one the key had, or the one
\* inserted for it
Window == IF cres.key \in DOMAIN cres.pre THEN cres.pre[cres.key] ELSE cdata[cres.key]

\* C16: incr(key) at second t, for a key whose window is [start, start + 59]:
\* if start <= t <= start + 59 it returns Ok, the count of slot t - start is
\* one more, and every other slot and every other key is as it was; otherwise
\* it returns MustFlushCounter and no count of any key has changed.
C16_IncrOutcome ==
    cres.op = "incr" =>
        LET k == cres.key
            t == cres.t
            start == Window.start
            before == IF k \in DOMAIN cres.pre
                      THEN cres.pre[k].data
                      ELSE [i \in 0..(BufLen - 1) |-> 0]
            others == \A k2 \in DOMAIN cres.pre \ {k} : cdata[k2] = cres.pre[k2]
        IN /\ Window.end = start + 59
           /\ cdata[k].start = start
           /\ IF start <= t /\ t <= start + 59
              THEN /\ cres.ret = "Ok"
                   /\ cdata[k].data[t - start] = before[t - start] + 1
                   /\ \A i \in 0..(BufLen - 1) \ {t - start} : cdata[k].data[i] = before[i]
                   /\ others
              ELSE /\ cres.ret = "MustFlushCounter"
                   /\ cdata[k].data = before
                   /\ others

\* incr was refused for a key that holds counts, another key being present
C16_Witness ==
    /\ cres.op = "incr"
    /\ cres.ret = "MustFlushCounter"
    /\ cres.key \in DOMAIN cres.pre
    /\ \E i \in 0..(BufLen - 1) : cres.pre[cres.key].data[i] > 0
    /\ DOMAIN cres.pre # {cres.key}

\* ------------------------------------------------------------------
\* Claims about write_buffer.

NonZeroSlots(buf) == {i \in 0..(BufLen - 1) : buf.data[i] # 0}

\* the entry of slot i: <start + i - offset>:<count>
Entry(buf, offset, i) ==
    format_i64(buf.start + i - offset) \o <<":">> \o format_u64(buf.data[i])

\* the entries of the slots in S, in increasing slot order, a comma between
\* each two
RECURSIVE Joined(_, _, _)
Joined(buf, offset, S) ==
    IF S = {}
    THEN << >>
    ELSE LET last == CHOOSE i \in S : \A j \in S : j <= i
             rest == S \ {last}
         IN (IF rest = {} THEN << >> ELSE Joined(buf, offset, rest) \o <<",">>)
            \o Entry(buf, offset, last)

\* C17: for a Buffer with at least one nonzero slot, write_buffer(offset, buf,
\* dest) leaves in dest what it held followed by the entries
\* <start + i - offset>:<count> of exactly the nonzero slots i, in increasing
\* i, separated by single commas, with no trailing comma.
C17_WriteBuffer ==
    wout.op = "write_buffer" /\ NonZeroSlots(wbuf) # {} =>
        wout.out = wout.dest \o Joined(wbuf, wout.offset, NonZeroSlots(wbuf))

\* test_write_buffer: the Buffer of the test written with offset 200 gives
\* "1305:2,1316:3,1332:1"
C17_Witness ==
    /\ wout.op = "write_buffer"
    /\ wout.dest = << >>
    /\ wout.out = <<"1", "3", "0", "5", ":", "2", ",",
                    "1", "3", "1", "6", ":", "3", ",",
                    "1", "3", "3", "2", ":", "1">>

\* ------------------------------------------------------------------
\* Claims about TSBlock.

\* C18: after any sequence of publish_at calls on a TSBlock made with
\* at(ts0), Last is present iff a sample has been published, Last.ts is the
\* timestamp of the most recent publish, and Last.delta is that timestamp
\* minus the one published before it (ts0 when there was only one),
\* whichever branch of the timestamp field each publish took.
C18_LastSample ==
    LET n == Len(tpub)
    IN /\ tsb.last.present <=> n > 0
       /\ n > 0 =>
             /\ tsb.last.ts = tpub[n]
             /\ tsb.last.delta = tpub[n] - (IF n = 1 THEN tsb.ts0 ELSE tpub[n - 1])

\* three samples published, the last 5000 s after a sample 5 s after the
\* first: its delta-of-delta takes the 32-bit branch
C18_Witness ==
    /\ Len(tpub) = 3
    /\ tpub[2] - tpub[1] = 5
    /\ tsb.last.delta = 5000

\* ------------------------------------------------------------------
\* Claims about append's arithmetic, masking and zero width.

NoFault(arith) ==
    \A a \in arith :
        /\ a.kind = "shift" => a.val \in 0..63
        /\ a.kind = "sub" => a.val >= 0

\* C21: for every append width n in 0..64 at the cursor reached, and for
\* get_block and set_block (set_cur_block, set_next_block) at every bit index
\* up to two blocks beyond the storage, every shift amount lies in 0..63 and
\* no unsigned subtraction goes below zero; so too in the append just made.
C21_NoArithmeticFaults ==
    /\ \A n \in 0..64 : NoFault(append_arith([vec |-> vec, len |-> len], n))
    /\ \A i \in ReadIndexes :
          /\ NoFault(get_block_arith(vec, i))
          /\ NoFault(get_block_arith(data, i))
          /\ NoFault(set_block_arith(i))
    /\ Len(calls) > 0 => NoFault(append_arith(Before, LastCall[1]))

\* an append of 3 bits was made at a cursor that is not block aligned
C21_Witness ==
    /\ Len(calls) > 0
    /\ LastCall[1] = 3
    /\ Before.len % 64 # 0

\* the low n bits of d
LowBits(d, n) == {b \in d : b < n}

\* data values of which some agree on their low bits and differ above them
MaskData == Blocks \cup {U64(1), U64(3), LowBits(Pat, 14), LowBits(Pat, 32)}

\* C22: for n in 1..64, append(n, d') applied to the state the last
\* append(n, d) started from gives the storage and cursor that call gave, for
\* every d' that agrees with d on the low n bits.
C22_AppendMasks ==
    Len(calls) > 0 /\ LastCall[1] \in 1..64 =>
        \A d \in MaskData :
            LowBits(d, LastCall[1]) = LowBits(LastCall[2], LastCall[1]) =>
                append(Before, LastCall[1], d) = [vec |-> vec, len |-> len]

\* an append of 2..63 bits whose data has set bits above the low n, some
\* other data value agreeing with it on the low n bits
C22_Witness ==
    /\ Len(calls) > 0
    /\ LastCall[1] \in 2..63
    /\ LowBits(LastCall[2], LastCall[1]) # LastCall[2]
    /\ \E d \in MaskData :
          /\ d # LastCall[2]
          /\ LowBits(d, LastCall[1]) = LowBits(LastCall[2], LastCall[1])

\* C23: append(0, d) leaves the cursor, the storage length and every stored
\* bit as they were: the append(0, d) just made did, and so would one made
\* next, whatever d.
C23_ZeroWidthNoOp ==
    /\ Len(calls) > 0 /\ LastCall[1] = 0 =>
          /\ len = Before.len
          /\ Len(vec) = Len(Before.vec)
          /\ vec = Before.vec
    /\ \A d \in MaskData :
          append([vec |-> vec, len |-> len], 0, d) = [vec |-> vec, len |-> len]

\* append(0, d) with d nonzero was made after an append that left the
\* cursor in the middle of a block
C23_Witness ==
    /\ Len(calls) > 1
    /\ LastCall[1] = 0
    /\ LastCall[2] # Zero
    /\ len % 64 # 0

\* C24: flush(start) whose writer returned Ok returns Ok and leaves every
\* key's buffer with 60 zero counts and window [start, start + 59], the keys
\* being those it found; flush whose writer returned an error returns that
\* error and leaves every buffer's counts and window as they were.
C24_FlushOutcome ==
    cres.op = "flush" =>
        IF cres.written
        THEN /\ cres.ret = "Ok"
             /\ DOMAIN cdata = DOMAIN cres.pre
             /\ \A k \in DOMAIN cdata :
                   /\ \A i \in 0..(BufLen - 1) : cdata[k].data[i] = 0
                   /\ DOMAIN cdata[k].data = 0..(BufLen - 1)
                   /\ cdata[k].start = cres.t
                   /\ cdata[k].end = cres.t + 59
        ELSE /\ cres.ret = "IO"
             /\ DOMAIN cdata = DOMAIN cres.pre
             /\ \A k \in DOMAIN cdata : cdata[k] = cres.pre[k]

\* the writer failed in a flush to another start than that of the window of
\* a key that holds a count
C24_Witness ==
    /\ cres.op = "flush"
    /\ ~cres.written
    /\ \E k \in DOMAIN cres.pre :
          /\ cres.pre[k].start # cres.t
          /\ \E i \in 0..(BufLen - 1) : cres.pre[k].data[i] > 0

\* ------------------------------------------------------------------
\* Claims about incr after a flush.

\* the second the last incr read lies in the window the last Ok flush set
InFlushed == cflush.s <= cres.t /\ cres.t <= cflush.s + 59

\* C26: once an incr has returned MustFlushCounter and a flush(s) after it
\* has returned Ok, every incr(k) for a key k that was present at the flush,
\* made at a second t with s <= t <= s + 59, returns Ok, and the first incr
\* to return MustFlushCounter again is made at a second outside [s, s + 59].
\* flush(s) is the last flush that returned Ok.
C26_FlushReenables ==
    cres.op = "incr" /\ cflush.after =>
        /\ cres.key \in cflush.keys /\ InFlushed => cres.ret = "Ok"
        /\ cres.ret = "MustFlushCounter" /\ cflush.again = 1 => ~InFlushed

\* ------------------------------------------------------------------
\* Claims about what write_buffer leaves of dest.

IsPrefix(p, str) == Len(p) <= Len(str) /\ SubSeq(str, 1, Len(p)) = p

\* {<key>;<entries>} for each key in the order of iteration
RECURSIVE Braced(_, _, _, _)
Braced(offset, map, order, i) ==
    IF i > Len(order)
    THEN << >>
    ELSE <<"{">> \o chars(order[i]) \o <<";">>
         \o Joined(map[order[i]], offset, NonZeroSlots(map[order[i]]))
         \o <<"}">> \o Braced(offset, map, order, i + 1)

\* C25: after write_buffer(offset, buf, dest), for any Buffer, one with 60
\* zero counts too, what dest held before is a prefix of dest; and
\* write_data_to_string returns, for every key, '{<key>;' followed by the
\* entries of its buffer and '}', also for a key whose buffer holds no count.
C25_OnlyAppends ==
    /\ wout.op = "write_buffer" => IsPrefix(wout.dest, wout.out)
    /\ wout.op = "write_data_to_string" =>
          wout.out = Braced(wout.offset, wout.map, wout.order, 1)

====
